---- MODULE Spec2Model ----
(***************************************************************************)
(* Model of MinusLnStack.minus_ln_stack and MinusLnStack.copy_metadata     *)
(* (src/lnstacks.py).  One action per statement of the two methods; the    *)
(* program counter pc is named after the source line about to execute.     *)
(* File names are sequences of one-character strings, so that rsplit and   *)
(* the extension test are computed rather than assumed.  A frame is        *)
(* abstracted to one pixel value (np.log is element-wise, so a uniform     *)
(* frame stays uniform).                                                   *)
(***************************************************************************)
EXTENDS Integers, Sequences, FiniteSets, TLC

VARIABLES h5_stack_fn, src, pc, err, h5_handler, h5_outfile, h5_outfile_fn,
          ext, infoshape, grp_ln, out_ds, n_img, img, angles, energies,
          x_pixel_size, y_pixel_size, log

vars == <<h5_stack_fn, src, pc, err, h5_handler, h5_outfile, h5_outfile_fn,
          ext, infoshape, grp_ln, out_ds, n_img, img, angles, energies,
          x_pixel_size, y_pixel_size, log>>

-----------------------------------------------------------------------------
(* Bounds of the explored input space *)
MaxLen == 4
MaxFrames == 2
MaxDim == 1
MaxVal == 1

-----------------------------------------------------------------------------
(* Values *)
None == <<"<None>">>
NoStr == <<"<unset>">>
Absent == 0
Alphabet == {"a", ".", "h", "5"}
Pixels == {"1", "e"}
MetaNames == {"rotation_angle", "energy", "x_pixel_size", "y_pixel_size"}
H5 == <<"h", "5">>
HDF5 == <<"h", "d", "f", "5">>
LnSuffix == <<"_", "l", "n", ".", "h", "d", "f", "5">>

(* -np.log(img), by the two reference points of the natural logarithm *)
MinusLn(p) == IF p = "1" THEN "0.0" ELSE "-1.0"

(* index of the last '.' of s within s[1..n], 0 when there is none *)
RECURSIVE LastDot(_, _)
LastDot(s, n) == IF n = 0 THEN 0
                 ELSE IF s[n] = "." THEN n ELSE LastDot(s, n - 1)

(* index of the first '.' of s at or after position n, 0 when none *)
RECURSIVE FirstDot(_, _)
FirstDot(s, n) == IF n > Len(s) THEN 0
                  ELSE IF s[n] = "." THEN n ELSE FirstDot(s, n + 1)

(* variant: s.split('.', 1), cutting at the first '.' *)
rsplit_AtFirstDot(s) ==
    LET i == FirstDot(s, 1)
    IN IF i = 0 THEN <<s>>
       ELSE <<SubSeq(s, 1, i - 1), SubSeq(s, i + 1, Len(s))>>

(* s.rsplit('.', 1): a list of one or two pieces *)
rsplit(s) == LET i == LastDot(s, Len(s))
             IN IF i = 0 THEN <<s>>
                ELSE <<SubSeq(s, 1, i - 1), SubSeq(s, i + 1, Len(s))>>

(* variant: one chunk spanning the whole dataset *)
ChunkShape_Whole(shape) == shape

(* chunks=(1, n_rows, n_cols) *)
ChunkShape(shape) == <<1, shape[2], shape[3]>>

(* h5py rejects a chunk larger than the dataset or with an empty dimension *)
ChunksValid(shape) == \A k \in 1..3 : shape[k] >= 1

Ev(e, i) == [ev |-> e, i |-> i]
NoDataset == [exists |-> FALSE, shape |-> <<>>, chunks |-> <<>>,
              dtype |-> "", nframes_attr |-> -1, data |-> <<>>]
NoGroup == [exists |-> FALSE, meta |-> [m \in MetaNames |-> Absent]]

-----------------------------------------------------------------------------
(* Inputs: the file name handed to minus_ln_stack and the source file *)
SeqsUpTo(S, n) == UNION {[1..k -> S] : k \in 0..n}

AllPaths == SeqsUpTo(Alphabet, MaxLen)
ScanH5 == <<"s", "c", "a", "n", ".", "h", "5">>
Run01Hdf5 == <<"/", "d", "a", "t", "a", "/", "r", "u", "n", "0", "1", ".",
               "h", "d", "f", "5">>
RepPaths == {None, <<>>, <<"a">>, ScanH5, Run01Hdf5, <<"a", ".", "H", "5">>,
             <<"a", ".", "H", "D", "F", "5">>, <<"a", ".", "t", "x", "t">>}

(* stored metadata values: distinct ranges per field *)
FieldBase(name) == CASE name = "rotation_angle" -> 0
                     [] name = "energy" -> 10
                     [] name = "x_pixel_size" -> 20
                     [] name = "y_pixel_size" -> 30
Metas == {[f \in MetaNames |->
              IF v[f] = 0 THEN Absent ELSE FieldBase(f) + v[f]] :
            v \in [MetaNames -> 0..MaxVal]}
NoMeta == [m \in MetaNames |-> Absent]
Stacks == {[kind |-> "dataset", shape |-> <<Len(f), r, c>>, frames |-> f,
            meta |-> m] :
             f \in SeqsUpTo(Pixels, MaxFrames), r \in 0..MaxDim,
             c \in 0..MaxDim, m \in Metas}
Broken == {[kind |-> k, shape |-> <<>>, frames |-> <<>>, meta |-> NoMeta] :
             k \in {"unreadable", "nogroup", "nodataset"}}
           \cup {[kind |-> "dataset", shape |-> <<1, 1>>, frames |-> <<>>,
                  meta |-> NoMeta]}
Files == Stacks \cup Broken
RepFiles == Broken \cup
            {[kind |-> "dataset", shape |-> <<1, 1, 1>>, frames |-> <<"e">>,
              meta |-> [m \in MetaNames |-> FieldBase(m) + 1]]}

Init == /\ \/ (h5_stack_fn \in RepPaths /\ src \in Files)
           \/ (h5_stack_fn \in AllPaths /\ src \in RepFiles)
        /\ pc = "L39"
        /\ err = "none"
        /\ h5_handler = "unopened"
        /\ h5_outfile = "unopened"
        /\ h5_outfile_fn = NoStr
        /\ ext = NoStr
        /\ infoshape = <<>>
        /\ grp_ln = NoGroup
        /\ out_ds = NoDataset
        /\ n_img = -1
        /\ img = ""
        /\ angles = Absent
        /\ energies = Absent
        /\ x_pixel_size = Absent
        /\ y_pixel_size = Absent
        /\ log = <<>>

-----------------------------------------------------------------------------
(* An exception leaving minus_ln_stack: the call ends, nothing is undone *)
Raise(e) == /\ pc' = "failed"
            /\ err' = e

cmLocals == <<angles, energies, x_pixel_size, y_pixel_size>>
loopVars == <<n_img, img>>
names == <<h5_outfile_fn, ext>>
handles == <<h5_handler, h5_outfile>>
input == <<h5_stack_fn, src>>

(* if h5_stack_fn is None: raise ValueError *)
CheckInput ==
    /\ pc = "L39"
    /\ IF h5_stack_fn = None THEN Raise("ValueError")
       ELSE pc' = "L42" /\ err' = err
    /\ UNCHANGED <<input, handles, names, infoshape, grp_ln, out_ds,
                   loopVars, cmLocals, log>>

(* h5_handler = h5py.File(h5_stack_fn, "r") *)
OpenSource ==
    /\ pc = "L42"
    /\ log' = Append(log, Ev("open_src", 0))
    /\ IF h5_stack_fn = <<>> \/ src.kind = "unreadable"
       THEN Raise("OSError") /\ h5_handler' = h5_handler
       ELSE pc' = "L44" /\ err' = err /\ h5_handler' = "open"
    /\ UNCHANGED <<input, h5_outfile, names, infoshape, grp_ln, out_ds,
                   loopVars, cmLocals>>

(* h5_outfile_fn = h5_stack_fn.rsplit('.', 1)[0] + '_ln.hdf5' *)
DeriveOutName ==
    /\ pc = "L44"
    /\ h5_outfile_fn' = rsplit(h5_stack_fn)[1] \o LnSuffix
    /\ pc' = "L45"
    /\ UNCHANGED <<input, err, handles, ext, infoshape, grp_ln, out_ds,
                   loopVars, cmLocals, log>>

(* ext = h5_stack_fn.rsplit('.', 1)[1] *)
DeriveExt ==
    /\ pc = "L45"
    /\ IF Len(rsplit(h5_stack_fn)) < 2
       THEN Raise("IndexError") /\ ext' = ext
       ELSE pc' = "L46" /\ err' = err /\ ext' = rsplit(h5_stack_fn)[2]
    /\ UNCHANGED <<input, handles, h5_outfile_fn, infoshape, grp_ln, out_ds,
                   loopVars, cmLocals, log>>

(* h5_outfile = h5py.File(h5_outfile_fn, 'w') *)
CreateDest ==
    /\ pc = "L46"
    /\ log' = Append(log, Ev("create_dst", 0))
    /\ \E ok \in BOOLEAN :
         IF ok THEN pc' = "L48" /\ err' = err /\ h5_outfile' = "open"
         ELSE Raise("OSError") /\ h5_outfile' = h5_outfile
    /\ UNCHANGED <<input, h5_handler, names, infoshape, grp_ln, out_ds,
                   loopVars, cmLocals>>

(* h5_group = h5_handler[tree] *)
ResolveGroup ==
    /\ pc = "L48"
    /\ IF src.kind = "nogroup" THEN Raise("KeyError")
       ELSE pc' = "L50" /\ err' = err
    /\ UNCHANGED <<input, handles, names, infoshape, grp_ln, out_ds,
                   loopVars, cmLocals, log>>

(* input_data_stack = h5_group[dataset] *)
ResolveDataset ==
    /\ pc = "L50"
    /\ IF src.kind = "nodataset" THEN Raise("KeyError")
       ELSE pc' = "L53" /\ err' = err
    /\ UNCHANGED <<input, handles, names, infoshape, grp_ln, out_ds,
                   loopVars, cmLocals, log>>

(* infoshape = input_data_stack.shape; n_frames, n_rows, n_cols = ... *)
ReadShape ==
    /\ pc = "L53"
    /\ infoshape' = src.shape
    /\ IF Len(src.shape) < 3 THEN Raise("IndexError")
       ELSE pc' = "L58" /\ err' = err
    /\ UNCHANGED <<input, handles, names, grp_ln, out_ds, loopVars,
                   cmLocals, log>>

(* grp_ln = h5_outfile.create_group(tree) *)
CreateGroup ==
    /\ pc = "L58"
    /\ grp_ln' = [grp_ln EXCEPT !.exists = TRUE]
    /\ log' = Append(log, Ev("create_group", 0))
    /\ pc' = "L61"
    /\ UNCHANGED <<input, err, handles, names, infoshape, out_ds, loopVars,
                   cmLocals>>

(* ext == "h5" or ext == "hdf5" *)
IsHdf5Ext(e) == e = H5 \/ e = HDF5

(* if ext == "h5" or ext == "hdf5": self.copy_metadata(h5_group, grp_ln) *)
MetadataGate ==
    /\ pc = "L61"
    /\ IF IsHdf5Ext(ext)
       THEN pc' = "L84" /\ log' = Append(log, Ev("copy_metadata", 0))
       ELSE pc' = "L65" /\ log' = log
    /\ UNCHANGED <<input, err, handles, names, infoshape, grp_ln, out_ds,
                   loopVars, cmLocals>>

-----------------------------------------------------------------------------
(* copy_metadata(h5_group, h5_grp_ln) *)
mainState == <<input, err, handles, names, infoshape, out_ds, loopVars>>

(* h5_group[name].value: the stored value, or a failure when the field is
   absent or unreadable *)
Readable(name) == src.meta[name] # Absent

(* h5_grp_ln.create_dataset(name, data=v) *)
PutMeta(g, name, v) == [g EXCEPT !.meta[name] = v]

(* variant: a failed read of rotation_angle leaves copy_metadata *)
ReadAngles_ReturnsOnFailure ==
    /\ pc = "L84"
    /\ IF Readable("rotation_angle")
       THEN /\ angles' = src.meta["rotation_angle"]
            /\ pc' = "L85"
            /\ log' = log
       ELSE /\ angles' = angles
            /\ pc' = "L65"
            /\ log' = Append(log, Ev("print_angles_failed", 0))
    /\ UNCHANGED <<mainState, grp_ln, energies, x_pixel_size, y_pixel_size>>

(* try: angles = h5_group["rotation_angle"].value / except: print *)
ReadAngles ==
    /\ pc = "L84"
    /\ IF Readable("rotation_angle")
       THEN /\ angles' = src.meta["rotation_angle"]
            /\ pc' = "L85"
            /\ log' = log
       ELSE /\ angles' = angles
            /\ pc' = "L93"
            /\ log' = Append(log, Ev("print_angles_failed", 0))
    /\ UNCHANGED <<mainState, grp_ln, energies, x_pixel_size, y_pixel_size>>

(* h5_grp_ln.create_dataset("rotation_angle", data=angles) *)
WriteAngles ==
    /\ pc = "L85"
    /\ grp_ln' = PutMeta(grp_ln, "rotation_angle", angles)
    /\ pc' = "L93"
    /\ UNCHANGED <<mainState, cmLocals, log>>

(* try: energies = h5_group["energy"].value / except: print *)
ReadEnergies ==
    /\ pc = "L93"
    /\ IF Readable("energy")
       THEN /\ energies' = src.meta["energy"]
            /\ pc' = "L94"
            /\ log' = log
       ELSE /\ energies' = energies
            /\ pc' = "L102"
            /\ log' = Append(log, Ev("print_energies_failed", 0))
    /\ UNCHANGED <<mainState, grp_ln, angles, x_pixel_size, y_pixel_size>>

(* h5_grp_ln.create_dataset("energy", data=energies) *)
WriteEnergies ==
    /\ pc = "L94"
    /\ grp_ln' = PutMeta(grp_ln, "energy", energies)
    /\ pc' = "L102"
    /\ UNCHANGED <<mainState, cmLocals, log>>

(* variant: x_pixel_size is written as soon as it is read *)
ReadXPixelSize_WritesAtOnce ==
    /\ pc = "L102"
    /\ IF Readable("x_pixel_size")
       THEN /\ x_pixel_size' = src.meta["x_pixel_size"]
            /\ grp_ln' = PutMeta(grp_ln, "x_pixel_size",
                                 src.meta["x_pixel_size"])
            /\ pc' = "L103"
            /\ log' = log
       ELSE /\ x_pixel_size' = x_pixel_size
            /\ grp_ln' = grp_ln
            /\ pc' = "L65"
            /\ log' = Append(log, Ev("print_pixel_failed", 0))
    /\ UNCHANGED <<mainState, angles, energies, y_pixel_size>>

(* try: x_pixel_size = h5_group["x_pixel_size"].value / except Exception *)
ReadXPixelSize ==
    /\ pc = "L102"
    /\ IF Readable("x_pixel_size")
       THEN /\ x_pixel_size' = src.meta["x_pixel_size"]
            /\ pc' = "L103"
            /\ log' = log
       ELSE /\ x_pixel_size' = x_pixel_size
            /\ pc' = "L65"
            /\ log' = Append(log, Ev("print_pixel_failed", 0))
    /\ UNCHANGED <<mainState, grp_ln, angles, energies, y_pixel_size>>

(* y_pixel_size = h5_group["y_pixel_size"].value / except Exception *)
ReadYPixelSize ==
    /\ pc = "L103"
    /\ IF Readable("y_pixel_size")
       THEN /\ y_pixel_size' = src.meta["y_pixel_size"]
            /\ pc' = "L104"
            /\ log' = log
       ELSE /\ y_pixel_size' = y_pixel_size
            /\ pc' = "L65"
            /\ log' = Append(log, Ev("print_pixel_failed", 0))
    /\ UNCHANGED <<mainState, grp_ln, angles, energies, x_pixel_size>>

(* h5_grp_ln.create_dataset("x_pixel_size", data=x_pixel_size) *)
WriteXPixelSize ==
    /\ pc = "L104"
    /\ grp_ln' = PutMeta(grp_ln, "x_pixel_size", x_pixel_size)
    /\ pc' = "L105"
    /\ UNCHANGED <<mainState, cmLocals, log>>

(* h5_grp_ln.create_dataset("y_pixel_size", data=y_pixel_size); return *)
WriteYPixelSize ==
    /\ pc = "L105"
    /\ grp_ln' = PutMeta(grp_ln, "y_pixel_size", y_pixel_size)
    /\ pc' = "L65"
    /\ UNCHANGED <<mainState, cmLocals, log>>

-----------------------------------------------------------------------------
(* grp_ln.create_dataset(dataset, shape=(n_frames, n_rows, n_cols),
                         chunks=(1, n_rows, n_cols), dtype='float32') *)
NewDataset(shape) ==
    [exists |-> TRUE, shape |-> shape, chunks |-> ChunkShape(shape),
     dtype |-> "float32", nframes_attr |-> -1,
     data |-> [k \in 1..shape[1] |-> "fill"]]

(* grp_ln[dataset].attrs['Number of Frames'] = n_frames *)
SetFramesAttr(ds, n_frames) == [ds EXCEPT !.nframes_attr = n_frames]

(* lines 65-67: the dataset is created and its attribute set; the for
   statement then starts n_img at 0 *)
CreateDataset ==
    /\ pc = "L65"
    /\ IF ChunksValid(infoshape)
       THEN /\ out_ds' = SetFramesAttr(NewDataset(infoshape), infoshape[1])
            /\ log' = log \o <<Ev("create_dataset", 0), Ev("set_attr", 0)>>
            /\ n_img' = 0
            /\ pc' = "L69"
            /\ err' = err
       ELSE /\ out_ds' = out_ds
            /\ log' = Append(log, Ev("create_dataset_failed", 0))
            /\ n_img' = n_img
            /\ Raise("ValueError")
    /\ UNCHANGED <<input, handles, names, infoshape, grp_ln, img, cmLocals>>

(* variant: the loop leaves one frame early *)
LoopHead_StopsEarly ==
    /\ pc = "L69"
    /\ pc' = IF n_img + 1 < infoshape[1] THEN "L70" ELSE "L73"
    /\ UNCHANGED <<input, err, handles, names, infoshape, grp_ln, out_ds,
                   loopVars, cmLocals, log>>

(* for n_img in range(n_frames) *)
LoopHead ==
    /\ pc = "L69"
    /\ pc' = IF n_img < infoshape[1] THEN "L70" ELSE "L73"
    /\ UNCHANGED <<input, err, handles, names, infoshape, grp_ln, out_ds,
                   loopVars, cmLocals, log>>

(* img = input_data_stack[n_img] *)
ReadFrame ==
    /\ pc = "L70"
    /\ log' = Append(log, Ev("read", n_img))
    /\ \E ok \in BOOLEAN :
         IF ok THEN img' = src.frames[n_img + 1] /\ pc' = "L71" /\ err' = err
         ELSE img' = img /\ Raise("OSError")
    /\ UNCHANGED <<input, handles, names, infoshape, grp_ln, out_ds, n_img,
                   cmLocals>>

(* variant: every frame after the first lands one index low *)
FrameTarget_Shifted(i) == IF i = 0 THEN 1 ELSE i

(* the frame index and the value stored by grp_ln[dataset][n_img] = ... *)
FrameTarget(i) == i + 1
FrameValue(p) == MinusLn(p)

(* grp_ln[dataset][n_img] = -np.log(img) *)
WriteFrame ==
    /\ pc = "L71"
    /\ \E ok \in BOOLEAN :
         IF ok
         THEN /\ out_ds' = [out_ds EXCEPT
                              !.data[FrameTarget(n_img)] = FrameValue(img)]
              /\ log' = Append(log, Ev("write", n_img))
              /\ n_img' = n_img + 1
              /\ pc' = "L69"
              /\ err' = err
         ELSE /\ out_ds' = out_ds
              /\ log' = Append(log, Ev("write_failed", n_img))
              /\ n_img' = n_img
              /\ Raise("OSError")
    /\ UNCHANGED <<input, handles, names, infoshape, grp_ln, img, cmLocals>>

(* h5_handler.close() *)
CloseSource ==
    /\ pc = "L73"
    /\ h5_handler' = "closed"
    /\ log' = Append(log, Ev("close_src", 0))
    /\ pc' = "L74"
    /\ UNCHANGED <<input, err, h5_outfile, names, infoshape, grp_ln, out_ds,
                   loopVars, cmLocals>>

(* h5_outfile.close() *)
CloseDest ==
    /\ pc = "L74"
    /\ h5_outfile' = "closed"
    /\ log' = Append(log, Ev("close_dst", 0))
    /\ pc' = "L75"
    /\ UNCHANGED <<input, err, h5_handler, names, infoshape, grp_ln, out_ds,
                   loopVars, cmLocals>>

(* print("Stack {} has been converted".format(h5_stack_fn)) *)
PrintDone ==
    /\ pc = "L75"
    /\ log' = Append(log, Ev("notice", 0))
    /\ pc' = "done"
    /\ UNCHANGED <<input, err, handles, names, infoshape, grp_ln, out_ds,
                   loopVars, cmLocals>>

Next == \/ CheckInput \/ OpenSource \/ DeriveOutName \/ DeriveExt
        \/ CreateDest \/ ResolveGroup \/ ResolveDataset \/ ReadShape
        \/ CreateGroup \/ MetadataGate
        \/ ReadAngles \/ WriteAngles \/ ReadEnergies \/ WriteEnergies
        \/ ReadXPixelSize \/ ReadYPixelSize \/ WriteXPixelSize
        \/ WriteYPixelSize
        \/ CreateDataset \/ LoopHead \/ ReadFrame
        \/ WriteFrame \/ CloseSource \/ CloseDest \/ PrintDone

Spec == Init /\ [][Next]_vars

TypeOK == /\ pc \in {"L39", "L42", "L44", "L45", "L46", "L48", "L50", "L53",
                     "L58", "L61", "L84", "L85", "L93", "L94", "L102",
                     "L103", "L104", "L105", "L65", "L69", "L70",
                     "L71", "L73", "L74", "L75", "done", "failed"}
          /\ err \in {"none", "ValueError", "OSError", "IndexError",
                      "KeyError"}
          /\ h5_handler \in {"unopened", "open", "closed"}
          /\ h5_outfile \in {"unopened", "open", "closed"}

-----------------------------------------------------------------------------
(* Vocabulary of the properties *)
Terminal == {"done", "failed"}
CmPcs == {"L84", "L85", "L93", "L94", "L102", "L103", "L104", "L105"}
Logged(e) == \E k \in 1..Len(log) : log[k].ev = e
Pos(e) == IF Logged(e)
          THEN CHOOSE k \in 1..Len(log) :
                 log[k].ev = e /\ \A j \in 1..(k - 1) : log[j].ev # e
          ELSE 0
IsWrite(x) == x.ev = "write"
Writes == SelectSeq(log, IsWrite)
Has(name) == grp_ln.meta[name] # Absent
CopyReturned == Logged("copy_metadata") /\ pc \notin CmPcs
HasDot(s) == \E i \in 1..Len(s) : s[i] = "."
(* e is the text after the last '.' of s *)
HasExt(s, e) == \E i \in 1..Len(s) :
                  /\ s[i] = "."
                  /\ e = SubSeq(s, i + 1, Len(s))
                  /\ \A j \in (i + 1)..Len(s) : s[j] # "."
Hdf5Named(s) == HasExt(s, H5) \/ HasExt(s, HDF5)
SoundStack == /\ src.kind = "dataset"
              /\ Len(src.shape) = 3
              /\ \A k \in 1..3 : src.shape[k] >= 1

(* C1: when a call of minus_ln_stack has ended, on the success path or on
   any failure path, neither container handle is still open. *)
C1_HandlesReleased ==
    pc \in Terminal => (h5_handler # "open" /\ h5_outfile # "open")

(* C2: a call whose input path is None or the empty string ends with
   ValueError and has performed no file-system access. *)
C2_InvalidArgumentNoIO ==
    (h5_stack_fn \in {None, <<>>} /\ pc \in Terminal)
      => (pc = "failed" /\ err = "ValueError" /\ log = <<>>)

(* C3: the pixel sizes are copied as a pair: a pixel size is in the
   destination group only when both source reads succeed, and once
   copy_metadata has returned the destination holds x_pixel_size exactly
   when it holds y_pixel_size, namely exactly when both were readable. *)
C3_PixelPairAtomic ==
    /\ (Has("x_pixel_size") \/ Has("y_pixel_size"))
         => (src.meta["x_pixel_size"] # Absent
             /\ src.meta["y_pixel_size"] # Absent)
    /\ CopyReturned =>
         /\ Has("x_pixel_size") <=> Has("y_pixel_size")
         /\ (src.meta["x_pixel_size"] # Absent
             /\ src.meta["y_pixel_size"] # Absent)
              => /\ grp_ln.meta["x_pixel_size"] = src.meta["x_pixel_size"]
                 /\ grp_ln.meta["y_pixel_size"] = src.meta["y_pixel_size"]

C3_Witness ==
    /\ CopyReturned
    /\ src.meta["x_pixel_size"] # Absent
    /\ src.meta["y_pixel_size"] = Absent
    /\ ~Has("x_pixel_size")
    /\ Logged("print_pixel_failed")

(* C4: copy_metadata never raises and handles its fields independently: no
   call fails while inside it, and once it has returned rotation_angle and
   energy are each in the destination exactly when present in the source,
   with the source's value, and a readable pixel-size pair is copied
   whatever happened to the other fields. *)
C4_MetadataBestEffort ==
    /\ pc \in CmPcs => err = "none"
    /\ (Logged("copy_metadata") /\ pc = "failed")
         => (Logged("create_dataset") \/ Logged("create_dataset_failed"))
    /\ CopyReturned =>
         /\ grp_ln.meta["rotation_angle"] = src.meta["rotation_angle"]
         /\ grp_ln.meta["energy"] = src.meta["energy"]
         /\ (src.meta["x_pixel_size"] # Absent
             /\ src.meta["y_pixel_size"] # Absent)
              => (Has("x_pixel_size") /\ Has("y_pixel_size"))

C4_Witness ==
    /\ CopyReturned
    /\ src.meta["rotation_angle"] = Absent
    /\ src.meta["x_pixel_size"] = Absent
    /\ Has("energy")
    /\ pc = "done"

(* C5: copy_metadata is invoked exactly when the text after the last '.' of
   the input path is "h5" or "hdf5"; for every other input path the
   conversion skips the copy without raising an error (a sound source stack
   can then fail only on an I/O fault) and the output group holds none of
   the four metadata fields. *)
C5_GateByExtension ==
    h5_stack_fn # None =>
      /\ Logged("copy_metadata") => Hdf5Named(h5_stack_fn)
      /\ (Hdf5Named(h5_stack_fn) /\ out_ds.exists) => Logged("copy_metadata")
      /\ (~Hdf5Named(h5_stack_fn) /\ h5_stack_fn # <<>>) =>
           /\ grp_ln.meta = NoMeta
           /\ (SoundStack /\ pc = "failed") => err = "OSError"

(* C6: frames are written at indices 0, 1, ... in ascending order, each
   once; every write follows the read of the same index and stores the
   negated logarithm of that source frame; untouched indices keep the fill
   value; on success every index has been written. *)
C6_FrameStreaming ==
    /\ \A k \in 1..Len(Writes) : Writes[k].i = k - 1
    /\ \A k \in 1..Len(log) :
         log[k].ev = "write"
           => (k > 1 /\ log[k - 1].ev = "read" /\ log[k - 1].i = log[k].i)
    /\ out_ds.exists =>
         /\ Len(Writes) <= src.shape[1]
         /\ \A i \in 0..(src.shape[1] - 1) :
              out_ds.data[i + 1] =
                IF i >= Len(Writes) THEN "fill"
                ELSE IF src.frames[i + 1] = "1" THEN "0.0" ELSE "-1.0"
    /\ pc = "done" => Len(Writes) = src.shape[1]

C6_Witness ==
    /\ pc = "done"
    /\ src.frames = <<"e", "1">>
    /\ out_ds.data = <<"-1.0", "0.0">>

(* C7: for a source dataset of shape (n_frames, n_rows, n_cols) with all
   dimensions at least 1 the output dataset is created, and from then on
   its shape is the input shape, its chunk shape (1, n_rows, n_cols), its
   element type float32 and its "Number of Frames" attribute n_frames. *)
C7_OutputLayout ==
    /\ out_ds.exists =>
         /\ out_ds.shape = src.shape
         /\ out_ds.chunks = <<1, src.shape[2], src.shape[3]>>
         /\ out_ds.dtype = "float32"
         /\ out_ds.nframes_attr = src.shape[1]
    /\ (SoundStack /\ pc \in {"L69", "L70", "L71", "L73", "L74", "L75",
                              "done"})
         => out_ds.exists

C7_Witness ==
    /\ pc = "done"
    /\ src.shape = <<2, 1, 1>>
    /\ out_ds.chunks = <<1, 1, 1>>
    /\ out_ds.nframes_attr = 2

(* C8: the output path is the input path without its final '.'-delimited
   extension segment (the whole path when it has no '.'), followed by
   "_ln.hdf5"; "scan.h5" gives "scan_ln.hdf5" and "/data/run01.hdf5" gives
   "/data/run01_ln.hdf5". *)
C8_OutputName ==
    h5_outfile_fn # NoStr =>
      LET n == Len(h5_outfile_fn) - Len(LnSuffix)
          stem == SubSeq(h5_outfile_fn, 1, n)
      IN /\ n >= 0
         /\ SubSeq(h5_outfile_fn, n + 1, Len(h5_outfile_fn)) = LnSuffix
         /\ IF HasDot(h5_stack_fn)
            THEN \E e \in {SubSeq(h5_stack_fn, i, Len(h5_stack_fn)) :
                             i \in 2..(Len(h5_stack_fn) + 1)} :
                   /\ HasExt(h5_stack_fn, e)
                   /\ h5_stack_fn = stem \o <<".">> \o e
            ELSE stem = h5_stack_fn
         /\ h5_stack_fn = ScanH5
              => h5_outfile_fn = <<"s", "c", "a", "n", "_", "l", "n", ".",
                                   "h", "d", "f", "5">>
         /\ h5_stack_fn = Run01Hdf5
              => h5_outfile_fn = <<"/", "d", "a", "t", "a", "/", "r", "u",
                                   "n", "0", "1", "_", "l", "n", ".", "h",
                                   "d", "f", "5">>

C8_Witness ==
    /\ h5_stack_fn = <<"a", ".", "h", ".">>
    /\ h5_outfile_fn = <<"a", ".", "h">> \o LnSuffix

(* C9: every run follows Open, optional metadata copy, dataset creation,
   frames, close: the source is opened first, a metadata copy has returned
   before the dataset is created, the dataset exists with its attribute
   before any frame is read or written, the containers are closed only
   after all frames are written, the completion notice is printed exactly
   in the successful final state with both handles closed, and a failed run
   takes no further step and prints no notice. *)
C9_Order ==
    /\ log # <<>> => log[1].ev = "open_src"
    /\ out_ds.exists => pc \in {"L69", "L70", "L71", "L73", "L74", "L75",
                                "done", "failed"}
    /\ (Logged("copy_metadata") /\ Logged("create_dataset"))
         => /\ Pos("create_group") < Pos("copy_metadata")
            /\ Pos("copy_metadata") < Pos("create_dataset")
    /\ \A k \in 1..Len(log) :
         log[k].ev \in {"read", "write"}
           => /\ Pos("create_dataset") >= 1
              /\ Pos("create_dataset") < Pos("set_attr")
              /\ Pos("set_attr") < k
    /\ \A c \in {"close_src", "close_dst"} :
         Logged(c) =>
           /\ Len(Writes) = src.shape[1]
           /\ \A k \in 1..Len(log) : log[k].ev = "write" => k < Pos(c)
    /\ h5_handler = "closed" <=> Logged("close_src")
    /\ h5_outfile = "closed" <=> Logged("close_dst")
    /\ Logged("notice") <=> pc = "done"
    /\ pc = "done" => /\ h5_handler = "closed"
                      /\ h5_outfile = "closed"
                      /\ err = "none"
                      /\ Len(Writes) = src.shape[1]
    /\ pc = "failed" <=> err # "none"

C9_Pipeline == []C9_Order /\ [][pc = "failed" => UNCHANGED vars]_vars

C9_Witness ==
    /\ pc = "done"
    /\ Logged("copy_metadata")
    /\ Len(Writes) = 2

(* C10: the destination container is created only after the source has
   been opened and its group and primary dataset resolved, so a run that
   fails on a missing group or dataset has created no destination file. *)
C10_SourceResolvedFirst ==
    /\ Logged("create_dst")
         => (h5_handler # "unopened" /\ src.kind = "dataset"
             /\ pc \notin {"L46", "L48", "L50"})
    /\ err = "KeyError" => ~Logged("create_dst")
====
